---- MODULE Spec2Model ----
(***************************************************************************)
(* A model of the extraction-normalization pipeline of                     *)
(* seo-mining-and-analysis: src/src/etl_pipeline.py (load_extraction_config,*)
(* extract, stage_1_polars_transform, load_to_duckdb, transform_in_duckdb, *)
(* pipeline) and src/src/models/data_field.py (DataField).                 *)
(*                                                                         *)
(* One behaviour is one call of pipeline(): the schema source and the list *)
(* of files are fixed by Init, and each action is one statement of         *)
(* pipeline's body (the schema load, one iteration of the extraction loop, *)
(* and each of the three stages).                                          *)
(***************************************************************************)
EXTENDS Integers, Sequences, FiniteSets, TLC

VARIABLES
    pc,                \* the statement of pipeline() that runs next
    config_src,        \* the file at schema_config_path (input)
    files_to_process,  \* the documents at the given paths (input)
    schema_config,     \* pipeline's local schema_config
    raw_json_blobs,    \* pipeline's local raw_json_blobs
    log,               \* what loguru has been handed, in order
    table,             \* the frame stage 1 collected
    csv_written,       \* polars_dump.csv has been written
    loaded,            \* the load query has been executed in the store
    transformed,       \* the transform query has been executed in the store
    conns,             \* the number of open connections to the store
    views,             \* create_views: the views gone through, with outcome
    exc                \* the exception that left the call, if any

vars == <<pc, config_src, files_to_process, schema_config, raw_json_blobs,
          log, table, csv_written, loaded, transformed, conns, views, exc>>

(***************************************************************************)
(* Bounds of the model.                                                    *)
(***************************************************************************)
MaxFiles == 3
MaxScripts == 2
MaxStrLen == 5

(***************************************************************************)
(* Values: what orjson.loads returns, as a tagged variant.  Python's None  *)
(* and JSON null are the same value.                                       *)
(***************************************************************************)
None == [t |-> "null"]
Str(s) == [t |-> "str", s |-> s]
Num(n) == [t |-> "num", n |-> n]
Obj(m) == [t |-> "obj", m |-> m]
Json(v) == [t |-> "json", of |-> v]
F64(int, frac) == [t |-> "f64", int |-> int, frac |-> frac]
I64(n) == [t |-> "i64", n |-> n]

NoExc == [type |-> "none", at |-> "none"]
Exc(type, at) == [type |-> type, at |-> at]

\* A log record: its level and the index of the file it is about (0: none).
Entry(level, about) == [level |-> level, about |-> about]

(***************************************************************************)
(* Schema source.  A source is a file that may not exist, whose content    *)
(* may not be JSON, and otherwise holds a list of objects; an object may   *)
(* lack "alias" or "path", or carry a key DataField does not declare.      *)
(***************************************************************************)
Field(alias, path) ==
    [has_alias |-> TRUE, alias |-> alias, has_path |-> TRUE, path |-> path,
     extra |-> FALSE]

ConfigFile(entries) == [exists |-> TRUE, is_json |-> TRUE, entries |-> entries]

\* DataField's declared constraints: alias and path required (Field(...)),
\* both of length >= 1, and no undeclared key (extra="forbid").
DataField_valid(field) ==
    /\ field.has_alias /\ field.alias # ""
    /\ field.has_path /\ Len(field.path) >= 1
    /\ ~field.extra

DataField(field) == [alias |-> field.alias, path |-> field.path]

\* load_extraction_config: the exists() test, orjson.loads, then one
\* DataField per entry.  Nothing compares one entry's alias with another's.
load_extraction_config(src) ==
    IF ~src.exists
    THEN [ok |-> FALSE, exc |-> "FileNotFoundError", schema |-> <<>>]
    ELSE IF ~src.is_json
    THEN [ok |-> FALSE, exc |-> "JSONDecodeError", schema |-> <<>>]
    ELSE IF \E i \in 1..Len(src.entries) : ~DataField_valid(src.entries[i])
    THEN [ok |-> FALSE, exc |-> "ValidationError", schema |-> <<>>]
    ELSE [ok |-> TRUE, exc |-> "none",
          schema |-> [i \in 1..Len(src.entries) |-> DataField(src.entries[i])]]

(***************************************************************************)
(* Documents.  A file is missing, a directory, unreadable, not UTF-8, or   *)
(* HTML with a sequence of script nodes.  A script node's text either      *)
(* contains the sentinel "window.__APP_DATA__" or not; when it does, the   *)
(* pattern  window\.__APP_DATA__\s*=\s*({.*})  finds no assignment         *)
(* ("nomatch"), or captures a span that orjson rejects ("badjson") or      *)
(* parses to a value ("ok").  The pattern contains the sentinel, so a node *)
(* without it never matches.                                               *)
(***************************************************************************)
Script(sentinel, assigned, value) ==
    [sentinel |-> sentinel, assigned |-> assigned, value |-> value]

File(kind) == [kind |-> kind, scripts |-> <<>>]
Html(scripts) == [kind |-> "html", scripts |-> scripts]

Returned(result, logs) ==
    [raised |-> FALSE, exc |-> "none", result |-> result, logs |-> logs]
Raised(type) ==
    [raised |-> TRUE, exc |-> type, result |-> None, logs |-> <<>>]

\* scan_scripts as the claim C3 reads it: the first sentinel-bearing node
\* decides, and a node without a locatable assignment is an error.
RECURSIVE scan_scripts_first_sentinel(_, _)
scan_scripts_first_sentinel(scripts, i) ==
    IF i > Len(scripts)
    THEN Returned(None, <<"WARNING">>)
    ELSE IF scripts[i].sentinel
         THEN IF scripts[i].assigned = "ok"
              THEN Returned(scripts[i].value, <<>>)
              ELSE Returned(None, <<"ERROR">>)
         ELSE scan_scripts_first_sentinel(scripts, i + 1)

\* The for loop of extract over tree.css("script"), from node i on: a node
\* is passed over unless it holds the sentinel and the pattern matches; the
\* first node that does decides the call.  Falling out of the loop logs the
\* warning; a JSONDecodeError is caught and logged as an error.
RECURSIVE scan_scripts(_, _)
scan_scripts(scripts, i) ==
    IF i > Len(scripts)
    THEN Returned(None, <<"WARNING">>)
    ELSE IF scripts[i].sentinel /\ scripts[i].assigned # "nomatch"
         THEN IF scripts[i].assigned = "ok"
              THEN Returned(scripts[i].value, <<>>)
              ELSE Returned(None, <<"ERROR">>)
         ELSE scan_scripts(scripts, i + 1)

\* extract as its docstring has it: ValueError when the pattern is not found.
extract_raising(doc) ==
    CASE doc.kind = "missing" -> Returned(None, <<"ERROR">>)
      [] doc.kind = "undecodable" -> Returned(None, <<"ERROR">>)
      [] doc.kind = "denied" -> Raised("PermissionError")
      [] doc.kind = "isdir" -> Raised("IsADirectoryError")
      [] OTHER -> IF scan_scripts(doc.scripts, 1).logs = <<"WARNING">>
                  THEN Raised("ValueError")
                  ELSE scan_scripts(doc.scripts, 1)

\* extract: read_text raises FileNotFoundError (caught), UnicodeDecodeError
\* (caught), or another OSError (PermissionError, IsADirectoryError), which
\* the except clause does not name and which leaves the function.
extract(doc) ==
    CASE doc.kind = "missing" -> Returned(None, <<"ERROR">>)
      [] doc.kind = "undecodable" -> Returned(None, <<"ERROR">>)
      [] doc.kind = "denied" -> Raised("PermissionError")
      [] doc.kind = "isdir" -> Raised("IsADirectoryError")
      [] OTHER -> scan_scripts(doc.scripts, 1)

(***************************************************************************)
(* Polars columns.  A column is the sequence of its cells, one per row.    *)
(* pl.LazyFrame(raw_data, strict=False) infers a struct's fields as the    *)
(* union of the keys the rows hold; a row that is None, or a dict that     *)
(* lacks a key, holds null there.  A batch with no dict at all (empty, or  *)
(* every record None) gives a frame without a "layout" column.             *)
(***************************************************************************)
has_field(col, seg) ==
    \E i \in DOMAIN col : col[i].t = "obj" /\ seg \in DOMAIN col[i].m

\* Expr.struct.field(seg), on a column whose dtype has that field.
struct_field(col, seg) ==
    [i \in DOMAIN col |->
        IF col[i].t = "obj" /\ seg \in DOMAIN col[i].m
        THEN col[i].m[seg] ELSE None]

\* DataField.to_polars_expr: one struct.field per segment of the path.  A
\* segment the column's dtype does not hold fails the whole query
\* (StructFieldNotFoundError; ColumnNotFoundError at the frame's top level).
RECURSIVE to_polars_expr(_, _)
to_polars_expr(path, root) ==
    IF Len(path) = 0
    THEN [ok |-> TRUE, col |-> root]
    ELSE IF ~has_field(root, Head(path))
         THEN [ok |-> FALSE, col |-> <<>>]
         ELSE to_polars_expr(Tail(path), struct_field(root, Head(path)))

dtype(col) ==
    IF \E i \in DOMAIN col : col[i].t = "obj" THEN "struct"
    ELSE IF \E i \in DOMAIN col : col[i].t = "str" THEN "str"
    ELSE IF \E i \in DOMAIN col : col[i].t = "num" THEN "num"
    ELSE "null"

(***************************************************************************)
(* Strings are sequences of one-character strings.                         *)
(***************************************************************************)
DigitChars == <<"0", "1", "2", "3", "4", "5", "6", "7", "8", "9">>
IsDigit(c) == \E i \in DOMAIN DigitChars : DigitChars[i] = c
DigitVal(c) == (CHOOSE i \in DOMAIN DigitChars : DigitChars[i] = c) - 1

RECURSIVE DecVal(_)
DecVal(s) ==
    IF Len(s) = 0 THEN 0
    ELSE DecVal(SubSeq(s, 1, Len(s) - 1)) * 10 + DigitVal(s[Len(s)])

RECURSIVE strip_start(_, _)
strip_start(s, c) ==
    IF Len(s) > 0 /\ s[1] = c THEN strip_start(Tail(s), c) ELSE s

RECURSIVE strip_end(_, _)
strip_end(s, c) ==
    IF Len(s) > 0 /\ s[Len(s)] = c
    THEN strip_end(SubSeq(s, 1, Len(s) - 1), c) ELSE s

\* Expr.str.strip_chars(c): every leading and every trailing occurrence.
strip_chars(s, c) == strip_end(strip_start(s, c), c)

\* .cast(pl.Float64, strict=False) of a string: digits with at most one
\* ".", and at least one digit; anything else is null.  The value is kept
\* as its integer part and its fraction digits without trailing zeros.
cast_float(s) ==
    LET dots == {i \in DOMAIN s : s[i] = "."}
        wellformed ==
            /\ \A i \in DOMAIN s : IsDigit(s[i]) \/ s[i] = "."
            /\ Cardinality(dots) <= 1
            /\ \E i \in DOMAIN s : IsDigit(s[i])
        dot == IF dots = {} THEN Len(s) + 1 ELSE CHOOSE i \in dots : TRUE
    IN  IF ~wellformed THEN None
        ELSE F64(DecVal(SubSeq(s, 1, dot - 1)),
                 strip_end(SubSeq(s, dot + 1, Len(s)), "0"))

\* .str.to_time("%H:%M:%S", strict=False): null unless the string is three
\* two-digit fields in range, separated by ":".
to_time(s) ==
    IF /\ Len(s) = 8
       /\ s[3] = ":" /\ s[6] = ":"
       /\ \A i \in {1, 2, 4, 5, 7, 8} : IsDigit(s[i])
       /\ DecVal(SubSeq(s, 1, 2)) <= 23
       /\ DecVal(SubSeq(s, 4, 5)) <= 59
       /\ DecVal(SubSeq(s, 7, 8)) <= 59
    THEN [t |-> "time", hour |-> DecVal(SubSeq(s, 1, 2)),
          minute |-> DecVal(SubSeq(s, 4, 5)),
          second |-> DecVal(SubSeq(s, 7, 8))]
    ELSE None

\* Two's-complement wrap of n to a signed integer of the given width.
Wrap(n, bits) == ((n + 2^(bits - 1)) % 2^bits) - 2^(bits - 1)

\* t.dt.hour() * 3600 + t.dt.minute() * 60 + t.dt.second(), then
\* .cast(pl.Int64).  dt.hour(), dt.minute() and dt.second() are Int8
\* columns; an integer literal takes the column's type when it fits (60
\* fits Int8) and the smallest type that holds it otherwise (3600: Int16),
\* and integer arithmetic wraps.  The cast to Int64 comes after the sum.
duration_seconds(t) ==
    Wrap(Wrap(Wrap(t.hour * 3600, 16) + Wrap(t.minute * 60, 8), 16)
         + t.second, 16)

(***************************************************************************)
(* stage_1_polars_transform.                                               *)
(***************************************************************************)
BOUNCE == "bounce_rate_raw"
BOUNCE_PERCENT == "Bounce Rate Percent"
DURATION == "Avg Visit Duration"
DURATION_SECONDS == "Avg Visit Duration (Seconds)"

Aliases(schema) == {schema[k].alias : k \in DOMAIN schema}

\* The cell of "Bounce Rate Percent" for a cell of "bounce_rate_raw".
bounce_rate_percent(cell) ==
    IF cell.t = "str" THEN cast_float(strip_chars(cell.s, "%")) ELSE None

\* The cell of "Avg Visit Duration (Seconds)" for a cell of the source.
avg_visit_duration_seconds(cell) ==
    IF cell.t = "str" /\ to_time(cell.s) # None
    THEN I64(duration_seconds(to_time(cell.s)))
    ELSE None

\* The map_elements over the List/Struct columns: orjson.dumps of the cell,
\* None kept as None.
serialize(cell) == IF cell = None THEN None ELSE Json(cell)

Failed(type) == [raised |-> TRUE, exc |-> type, table |-> <<>>]

\* The query a lazy frame runs at collect_schema()/collect(): the select of
\* one expression per schema field under layout.data, the two derived
\* columns read from the hard-coded source columns, and the serialization
\* of struct columns.  Any failing expression fails the query, before the
\* CSV is written.
stage_1_polars_transform(raw_data, schema) ==
    LET root == to_polars_expr(<<"layout", "data">>, raw_data)
        selected == [k \in DOMAIN schema |->
                        to_polars_expr(schema[k].path, root.col)]
        column(a) == selected[CHOOSE k \in DOMAIN schema : schema[k].alias = a].col
        final(a) == IF dtype(column(a)) = "struct"
                    THEN [i \in DOMAIN raw_data |-> serialize(column(a)[i])]
                    ELSE column(a)
        names == Aliases(schema) \cup {BOUNCE_PERCENT, DURATION_SECONDS}
        row(i) == [c \in names |->
                     IF c = BOUNCE_PERCENT
                     THEN bounce_rate_percent(column(BOUNCE)[i])
                     ELSE IF c = DURATION_SECONDS
                     THEN avg_visit_duration_seconds(column(DURATION)[i])
                     ELSE final(c)[i]]
    IN  IF ~root.ok
        THEN Failed("ColumnNotFoundError")
        ELSE IF \E k \in DOMAIN schema : ~selected[k].ok
        THEN Failed("StructFieldNotFoundError")
        ELSE IF Cardinality(Aliases(schema)) # Len(schema)
        THEN Failed("DuplicateError")
        ELSE IF BOUNCE \notin Aliases(schema) \/ DURATION \notin Aliases(schema)
        THEN Failed("ColumnNotFoundError")
        ELSE IF \E a \in {BOUNCE, DURATION} : dtype(column(a)) \notin {"str", "null"}
        THEN Failed("SchemaError")
        ELSE [raised |-> FALSE, exc |-> "none",
              table |-> [i \in DOMAIN raw_data |-> row(i)]]

(***************************************************************************)
(* pipeline(), one statement per action.                                   *)
(***************************************************************************)
\* schema_config = load_extraction_config(...); logger.info(...)
LoadConfig ==
    /\ pc = "load_config"
    /\ LET r == load_extraction_config(config_src)
       IN  IF r.ok
           THEN /\ schema_config' = r.schema
                /\ log' = Append(log, Entry("INFO", 0))
                /\ pc' = "extract"
                /\ exc' = exc
           ELSE /\ pc' = "raised"
                /\ exc' = Exc(r.exc, "load_extraction_config")
                /\ UNCHANGED <<schema_config, log>>
    /\ UNCHANGED <<config_src, files_to_process, raw_json_blobs, table,
                   csv_written, loaded, transformed, conns, views>>

\* One iteration of: for file in files_to_process:
\*                       raw_json_blobs.append(extract(file))
ExtractNext ==
    /\ pc = "extract"
    /\ Len(raw_json_blobs) < Len(files_to_process)
    /\ LET n == Len(raw_json_blobs) + 1
           r == extract(files_to_process[n])
       IN  IF r.raised
           THEN /\ pc' = "raised"
                /\ exc' = Exc(r.exc, "extract")
                /\ UNCHANGED <<raw_json_blobs, log>>
           ELSE /\ raw_json_blobs' = Append(raw_json_blobs, r.result)
                /\ log' = log \o [k \in DOMAIN r.logs |-> Entry(r.logs[k], n)]
                /\ UNCHANGED <<pc, exc>>
    /\ UNCHANGED <<config_src, files_to_process, schema_config, table,
                   csv_written, loaded, transformed, conns, views>>

\* with benchmark(...): stage_1_polars_transform(raw_json_blobs, ...)
Stage1 ==
    /\ pc = "extract"
    /\ Len(raw_json_blobs) = Len(files_to_process)
    /\ LET r == stage_1_polars_transform(raw_json_blobs, schema_config)
       IN  IF r.raised
           THEN /\ pc' = "raised"
                /\ exc' = Exc(r.exc, "stage_1_polars_transform")
                /\ UNCHANGED <<table, csv_written, log>>
           ELSE /\ table' = r.table
                /\ csv_written' = TRUE
                /\ log' = log \o <<Entry("INFO", 0),
                                   Entry("INFO", 0)>>
                /\ pc' = "load_to_duckdb"
                /\ exc' = exc
    /\ UNCHANGED <<config_src, files_to_process, schema_config,
                   raw_json_blobs, loaded, transformed, conns, views>>

(***************************************************************************)
(* The store.  load_to_duckdb, transform_in_duckdb and create_views each   *)
(* run  with duckdb.connect(...) as conn:  around their queries.           *)
(***************************************************************************)
\* __exit__ of the connection as a plain close() after the query would
\* have it: a failing query skips the close.
connection_exit_on_success(n, failed) == IF failed THEN n ELSE n - 1

\* __exit__ of the with statement: the connection is closed, whether the
\* body ended normally or with an exception.
connection_exit(n, failed) == n - 1

\* A stage of pipeline() that swallows its failure and goes on.
swallowed(failed, next) == next

\* Where pipeline() continues after a stage: nothing in pipeline() catches,
\* so a failing stage leaves it and no later statement runs.
after_stage(failed, next) == IF failed THEN "raised" ELSE next

\* with benchmark(...): load_to_duckdb(...), up to the connect.  The SQL
\* file may be missing (FileNotFoundError before anything is logged), and
\* duckdb.connect may fail (an IOException); each leaves pipeline().
LoadToDuckdb ==
    /\ pc = "load_to_duckdb"
    /\ \E outcome \in {"connected", "FileNotFoundError", "duckdb.IOException"} :
        /\ pc' = after_stage(outcome # "connected", "load_execute")
        /\ exc' = IF outcome = "connected" THEN exc
                  ELSE Exc(outcome, "load_to_duckdb")
        /\ log' = IF outcome = "FileNotFoundError" THEN log
                  ELSE Append(log, Entry("INFO", 0))
        /\ conns' = IF outcome = "connected" THEN conns + 1 ELSE conns
    /\ UNCHANGED <<config_src, files_to_process, schema_config,
                   raw_json_blobs, table, csv_written, loaded, transformed,
                   views>>

\* conn.execute(load_query) and the end of the with block, then the two
\* logger.info calls (load_to_duckdb's and benchmark's) when it succeeded.
LoadExecute ==
    /\ pc = "load_execute"
    /\ \E failed \in BOOLEAN :
        /\ conns' = connection_exit(conns, failed)
        /\ loaded' = ~failed
        /\ pc' = after_stage(failed, "transform_in_duckdb")
        /\ exc' = IF failed THEN Exc("duckdb.Error", "load_to_duckdb") ELSE exc
        /\ log' = IF failed THEN log
                  ELSE log \o <<Entry("INFO", 0), Entry("INFO", 0)>>
    /\ UNCHANGED <<config_src, files_to_process, schema_config,
                   raw_json_blobs, table, csv_written, transformed, views>>

\* with benchmark(...): transform_in_duckdb(...), up to the connect.
TransformInDuckdb ==
    /\ pc = "transform_in_duckdb"
    /\ \E outcome \in {"connected", "FileNotFoundError", "duckdb.IOException"} :
        /\ pc' = after_stage(outcome # "connected", "transform_execute")
        /\ exc' = IF outcome = "connected" THEN exc
                  ELSE Exc(outcome, "transform_in_duckdb")
        /\ log' = IF outcome = "FileNotFoundError" THEN log
                  ELSE Append(log, Entry("INFO", 0))
        /\ conns' = IF outcome = "connected" THEN conns + 1 ELSE conns
    /\ UNCHANGED <<config_src, files_to_process, schema_config,
                   raw_json_blobs, table, csv_written, loaded, transformed,
                   views>>

\* conn.execute(transform_query) and the end of the with block.
TransformExecute ==
    /\ pc = "transform_execute"
    /\ \E failed \in BOOLEAN :
        /\ conns' = connection_exit(conns, failed)
        /\ transformed' = ~failed
        /\ pc' = after_stage(failed, "done")
        /\ exc' = IF failed THEN Exc("duckdb.Error", "transform_in_duckdb")
                  ELSE exc
        /\ log' = IF failed THEN log
                  ELSE log \o <<Entry("INFO", 0), Entry("INFO", 0)>>
    /\ UNCHANGED <<config_src, files_to_process, schema_config,
                   raw_json_blobs, table, csv_written, loaded, views>>

(***************************************************************************)
(* create_views (src/src/analysis.py), called once the pipeline is done.   *)
(***************************************************************************)
\* sql_files, in the order the dict holds them.
ViewNames == <<"monthly_visit_changes", "monthly_rank_changes",
               "relative_ranking">>

\* A log record about a view (its name, or its SQL file's path).
ViewEntry(level, view) == [level |-> level, about |-> 0, view |-> view]

\* What a view's SQL file and query can do: the file is missing, the file
\* exists but open()/read() fails, the query fails, or the view is created.
ViewOutcomes == {"missing", "unreadable", "failed", "created"}

\* The loop body without its try/except: a failing query leaves the loop.
create_view_uncaught(outcome) ==
    CASE outcome = "missing" -> [raised |-> FALSE, level |-> "WARNING"]
      [] outcome = "unreadable" -> [raised |-> TRUE, level |-> "none"]
      [] outcome = "failed" -> [raised |-> TRUE, level |-> "none"]
      [] OTHER -> [raised |-> FALSE, level |-> "INFO"]

\* One iteration of the loop over sql_files: a missing file is warned about
\* and skipped (continue); open()/read() is outside the try, so its error
\* leaves create_views; conn.execute is inside it, and except Exception
\* logs the error and goes on.
create_view(outcome) ==
    CASE outcome = "missing" -> [raised |-> FALSE, level |-> "WARNING"]
      [] outcome = "unreadable" -> [raised |-> TRUE, level |-> "none"]
      [] outcome = "failed" -> [raised |-> FALSE, level |-> "ERROR"]
      [] OTHER -> [raised |-> FALSE, level |-> "INFO"]

\* create_views is called: duckdb.connect succeeds or fails.
CreateViews ==
    /\ pc = "done"
    /\ \E connected \in BOOLEAN :
        /\ conns' = IF connected THEN conns + 1 ELSE conns
        /\ pc' = IF connected THEN "create_views" ELSE "views_raised"
        /\ exc' = IF connected THEN exc
                  ELSE Exc("duckdb.IOException", "create_views")
    /\ UNCHANGED <<config_src, files_to_process, schema_config,
                   raw_json_blobs, log, table, csv_written, loaded,
                   transformed, views>>

\* One iteration of: for view_name, sql_path in sql_files.items()
CreateView ==
    /\ pc = "create_views"
    /\ Len(views) < Len(ViewNames)
    /\ \E outcome \in ViewOutcomes :
        LET name == ViewNames[Len(views) + 1]
            r == create_view(outcome)
        IN  /\ views' = Append(views, [name |-> name, outcome |-> outcome])
            /\ log' = IF r.raised THEN log
                      ELSE Append(log, ViewEntry(r.level, name))
            /\ pc' = IF r.raised THEN "views_raised" ELSE pc
            /\ exc' = IF r.raised THEN Exc("OSError", "create_views") ELSE exc
            /\ conns' = IF r.raised THEN connection_exit(conns, TRUE)
                        ELSE conns
    /\ UNCHANGED <<config_src, files_to_process, schema_config,
                   raw_json_blobs, table, csv_written, loaded, transformed>>

\* The loop is over: the with block ends and create_views returns.
CreateViewsReturn ==
    /\ pc = "create_views"
    /\ Len(views) = Len(ViewNames)
    /\ conns' = connection_exit(conns, FALSE)
    /\ pc' = "views_done"
    /\ UNCHANGED <<config_src, files_to_process, schema_config,
                   raw_json_blobs, log, table, csv_written, loaded,
                   transformed, views, exc>>

Next ==
    \/ LoadConfig
    \/ ExtractNext
    \/ Stage1
    \/ LoadToDuckdb
    \/ LoadExecute
    \/ TransformInDuckdb
    \/ TransformExecute
    \/ CreateViews
    \/ CreateView
    \/ CreateViewsReturn

(***************************************************************************)
(* Inputs.                                                                 *)
(***************************************************************************)
SeqsUpTo(S, n) == UNION {[1..k -> S] : k \in 0..n}

Fmt2(n) == <<DigitChars[(n \div 10) + 1], DigitChars[(n % 10) + 1]>>
Hms(h, m, sec) == Fmt2(h) \o <<":">> \o Fmt2(m) \o <<":">> \o Fmt2(sec)

Pct42_5 == <<"4", "2", ".", "5", "%">>
Oops == <<"o", "o", "p", "s">>

\* A document's __APP_DATA__ value: {"layout": {"data": {...}}}.
Record(data) == Obj([layout |-> Obj([data |-> Obj(data)])])
Data(bounce, duration) ==
    [bounceRate |-> Str(bounce), avgVisitDuration |-> Str(duration),
     x |-> Num(1), n |-> Obj([y |-> Num(2)])]

RFull == Record(Data(Pct42_5, Hms(1, 2, 3)))
\* without the terminal segment "x"
RNoX == Record([bounceRate |-> Str(Pct42_5),
                avgVisitDuration |-> Str(Hms(1, 2, 3)),
                n |-> Obj([y |-> Num(2)])])
\* without the intermediate segment "n" of the path n.y
RNoN == Record([bounceRate |-> Str(Pct42_5),
                avgVisitDuration |-> Str(Hms(1, 2, 3)),
                x |-> Num(1)])
\* a dict without "layout"
RNoLayout == Obj([other |-> Num(0)])

SampleRecords == {RFull, RNoX, RNoN, RNoLayout}

StandardEntries ==
    <<Field(BOUNCE, <<"bounceRate">>), Field(DURATION, <<"avgVisitDuration">>),
      Field("X", <<"x">>), Field("Y", <<"n", "y">>)>>

StandardConfig == ConfigFile(StandardEntries)

ConfigSources ==
    { [exists |-> FALSE, is_json |-> FALSE, entries |-> <<>>],
      [exists |-> TRUE, is_json |-> FALSE, entries |-> <<>>],
      StandardConfig,
      ConfigFile(Append(StandardEntries, Field("N", <<"n">>))),
      ConfigFile(<<Field("X", <<"x">>)>>),
      ConfigFile(Append(StandardEntries, Field("X", <<"bounceRate">>))),
      ConfigFile(Append(StandardEntries, Field("", <<"x">>))),
      ConfigFile(Append(StandardEntries, Field("Z", <<>>))),
      ConfigFile(Append(StandardEntries,
                        [Field("Z", <<"x">>) EXCEPT !.has_alias = FALSE])),
      ConfigFile(Append(StandardEntries,
                        [Field("Z", <<"x">>) EXCEPT !.has_path = FALSE])),
      ConfigFile(Append(StandardEntries,
                        [Field("Z", <<"x">>) EXCEPT !.extra = TRUE])) }

Ok(value) == Html(<<Script(TRUE, "ok", value)>>)

\* The documents of the multi-file batches.
BatchDocs ==
    {File("missing"), File("denied"), File("undecodable"), Html(<<>>)}
        \cup {Ok(v) : v \in SampleRecords}

\* The script nodes of the single-document runs.
ScriptNodes ==
    {Script(FALSE, "nomatch", None), Script(TRUE, "nomatch", None),
     Script(TRUE, "badjson", None), Script(TRUE, "ok", RFull),
     Script(TRUE, "ok", RNoX)}

Inputs ==
    (ConfigSources \X SeqsUpTo(BatchDocs \cup {File("isdir")}, 1))
    \cup ({StandardConfig} \X SeqsUpTo(BatchDocs, MaxFiles))
    \cup ({StandardConfig} \X {<<Html(s)>> : s \in SeqsUpTo(ScriptNodes, MaxScripts)})

\* The strings of the normalization runs.
BounceChars == {"%", "4", ".", "o"}
BounceStrings == SeqsUpTo(BounceChars, MaxStrLen) \cup {Pct42_5, Oops}

MaxHour == 24
Minutes == {0, 1, 2, 3, 30, 59, 60}
Seconds == {0, 3, 59}
DurationStrings ==
    {Hms(h, m, sec) : h \in 0..MaxHour, m \in Minutes, sec \in Seconds}
        \cup {<<>>, Oops, <<"1", "2", ":", "3", "0">>}

NormalizeInputs ==
    {<<StandardConfig, <<Ok(Record(Data(b, Hms(1, 2, 3))))>> >> : b \in BounceStrings}
    \cup {<<StandardConfig, <<Ok(Record(Data(Pct42_5, d)))>> >> : d \in DurationStrings}

InitWith(inputs) ==
    /\ \E in \in inputs : config_src = in[1] /\ files_to_process = in[2]
    /\ pc = "load_config"
    /\ schema_config = <<>>
    /\ raw_json_blobs = <<>>
    /\ log = <<>>
    /\ table = <<>>
    /\ csv_written = FALSE
    /\ loaded = FALSE
    /\ transformed = FALSE
    /\ conns = 0
    /\ views = <<>>
    /\ exc = NoExc

Init == InitWith(Inputs)
InitNormalize == InitWith(NormalizeInputs)

Spec == Init /\ [][Next]_vars
SpecNormalize == InitNormalize /\ [][Next]_vars

(***************************************************************************)
(* Vocabulary of the properties.                                           *)
(***************************************************************************)
N == Len(files_to_process)
Extracted == 1..Len(raw_json_blobs)

\* The levels of the log records about file i, in order.
RECURSIVE LevelsIn(_, _)
LevelsIn(l, i) ==
    IF Len(l) = 0 THEN <<>>
    ELSE (IF Head(l).about = i THEN <<Head(l).level>> ELSE <<>>)
         \o LevelsIn(Tail(l), i)
LevelsAbout(i) == LevelsIn(log, i)

\* The extraction loop is over and stage 1 has been called.
Stage1Called ==
    /\ pc \notin {"load_config", "extract"}
    /\ exc.at \notin {"load_extraction_config", "extract"}

Stage1Failed == exc.at = "stage_1_polars_transform"

AllMissing(row) == \A c \in DOMAIN row : row[c] = None

DerivedColumns == {BOUNCE_PERCENT, DURATION_SECONDS}

(***************************************************************************)
(* C1.  Row alignment: for every batch of N >= 0 documents and every       *)
(* pattern of extraction failures (the schema valid and every extracted    *)
(* record complete), stage 1 receives N records in input order, None for   *)
(* each failed document, and produces a table of N rows in which the row   *)
(* of every None record is all-missing.                                    *)
(***************************************************************************)
C1_RowAlignment ==
    (/\ config_src = StandardConfig
     /\ Stage1Called
     /\ \A i \in Extracted : raw_json_blobs[i] \in {None, RFull})
    => /\ Len(raw_json_blobs) = N
       /\ \A i \in Extracted :
            raw_json_blobs[i] = extract(files_to_process[i]).result
       /\ ~Stage1Failed
       /\ csv_written
       /\ Len(table) = N
       /\ \A i \in Extracted :
            raw_json_blobs[i] = None => AllMissing(table[i])

(***************************************************************************)
(* C2.  extract on a readable document in which no script node holds the   *)
(* sentinel returns None, logs one warning and no error, and does not      *)
(* raise.                                                                  *)
(***************************************************************************)
NoSentinel(doc) ==
    /\ doc.kind = "html"
    /\ \A k \in DOMAIN doc.scripts : ~doc.scripts[k].sentinel

SentinelNodes(doc) == {k \in DOMAIN doc.scripts : doc.scripts[k].sentinel}
Least(S) == CHOOSE k \in S : \A j \in S : k <= j

MatchingNodes(doc) ==
    {k \in DOMAIN doc.scripts :
        doc.scripts[k].sentinel /\ doc.scripts[k].assigned # "nomatch"}

FileError(doc) == doc.kind \in {"missing", "denied", "isdir", "undecodable"}

C4_FileErrorsIsolated ==
    /\ \A i \in Extracted :
         FileError(files_to_process[i]) =>
            raw_json_blobs[i] = None /\ LevelsAbout(i) = <<"ERROR">>
    /\ exc.at # "extract"

(***************************************************************************)
(* C5.  The schema loader rejects every invalid configuration: not-found   *)
(* for a missing source, a parse error for content that is not JSON, a     *)
(* validation error for an entry without alias or path, with an empty      *)
(* path, or with an alias another entry uses; it returns a schema only     *)
(* when every entry is valid and the aliases are pairwise distinct.        *)
(***************************************************************************)
UniqueAliases(entries) ==
    \A j, k \in DOMAIN entries :
        j # k => entries[j].alias # entries[k].alias

EntriesValid(src) ==
    /\ \A k \in DOMAIN src.entries : DataField_valid(src.entries[k])
    /\ UniqueAliases(src.entries)

ConfigAcceptable(src) == src.exists /\ src.is_json /\ EntriesValid(src)

LoadFailedWith(type) == exc = Exc(type, "load_extraction_config")

C5_LoaderRejectsInvalid ==
    pc # "load_config" =>
        IF ~config_src.exists THEN LoadFailedWith("FileNotFoundError")
        ELSE IF ~config_src.is_json THEN LoadFailedWith("JSONDecodeError")
        ELSE IF ~EntriesValid(config_src) THEN LoadFailedWith("ValidationError")
        ELSE /\ exc.at # "load_extraction_config"
             /\ Len(schema_config) = Len(config_src.entries)

(***************************************************************************)
(* C6.  Configuration errors are fatal and come first: no document is      *)
(* extracted before the schema is loaded, and when the schema source is    *)
(* missing, unparsable or invalid (a duplicate alias included) the run     *)
(* extracts no document, writes no intermediate artifact and never         *)
(* reaches the store.                                                      *)
(***************************************************************************)
NothingProcessed ==
    /\ raw_json_blobs = <<>>
    /\ \A k \in DOMAIN log : log[k].about = 0
    /\ ~csv_written
    /\ ~loaded /\ ~transformed

C6_ConfigErrorsFatalFirst ==
    /\ pc = "load_config" => NothingProcessed
    /\ ~ConfigAcceptable(config_src) => NothingProcessed

(***************************************************************************)
(* C7.  For every schema with unique aliases and every record, the row's   *)
(* key set is the schema's alias set plus the two derived columns, also    *)
(* for a schema without bounce_rate_raw and Avg Visit Duration: path ["x"] *)
(* aliased "X" over {"layout":{"data":{"x":1}}} yields X = 1.              *)
(***************************************************************************)
C7_RowKeysAreAliases ==
    (/\ ConfigAcceptable(config_src)
     /\ Stage1Called
     /\ Len(raw_json_blobs) >= 1
     /\ \A i \in Extracted : raw_json_blobs[i] = RFull
     /\ \A k \in DOMAIN schema_config :
            schema_config[k].alias \in {BOUNCE, DURATION, "X", "Y"})
    => /\ ~Stage1Failed
       /\ Len(table) = N
       /\ \A i \in DOMAIN table :
            /\ DOMAIN table[i] = Aliases(schema_config) \cup DerivedColumns
            /\ "X" \in Aliases(schema_config) => table[i]["X"] = Num(1)

(***************************************************************************)
(* C8.  A path segment absent from a record's layout.data gives that       *)
(* record's row a missing value for that alias only; the other aliases     *)
(* keep their values and the projection of the batch does not fail.        *)
(***************************************************************************)
RECURSIVE Lookup(_, _)
Lookup(v, path) ==
    IF Len(path) = 0 THEN v
    ELSE IF v.t = "obj" /\ Head(path) \in DOMAIN v.m
         THEN Lookup(v.m[Head(path)], Tail(path))
         ELSE None

C8_GapsAreLocal ==
    (/\ config_src = StandardConfig
     /\ Stage1Called
     /\ Len(raw_json_blobs) >= 1
     /\ \A i \in Extracted : raw_json_blobs[i] \in {RFull, RNoX, RNoN})
    => /\ ~Stage1Failed
       /\ Len(table) = N
       /\ \A i \in DOMAIN table : \A k \in DOMAIN schema_config :
            table[i][schema_config[k].alias]
                = Lookup(raw_json_blobs[i],
                         <<"layout", "data">> \o schema_config[k].path)

(***************************************************************************)
(* C9.  For every row whose Avg Visit Duration is a well-formed HH:MM:SS   *)
(* string, Avg Visit Duration (Seconds) is hour*3600 + minute*60 + second  *)
(* ("01:02:03" gives 3723); for every other row it is missing; no error.   *)
(***************************************************************************)
SourceData(i) == Lookup(raw_json_blobs[i], <<"layout", "data">>).m

Clock == {<<h, m, sec>> : h \in 0..23, m \in Minutes \cap 0..59,
                          sec \in Seconds \cap 0..59}

ExpectedSeconds(d) ==
    IF \E c \in Clock : d = Hms(c[1], c[2], c[3])
    THEN LET c == CHOOSE c \in Clock : d = Hms(c[1], c[2], c[3])
         IN  I64(c[1] * 3600 + c[2] * 60 + c[3])
    ELSE None

C9_DurationSeconds ==
    Stage1Called =>
        /\ ~Stage1Failed
        /\ \A i \in DOMAIN table :
             table[i][DURATION_SECONDS]
                 = ExpectedSeconds(SourceData(i).avgVisitDuration.s)

(***************************************************************************)
(* C10.  Bounce Rate Percent is the number parsed from bounce_rate_raw     *)
(* with only its trailing "%" stripped ("42.5%" gives 42.5); a value not   *)
(* of that form ("oops", a leading "%") gives a missing value, never an    *)
(* error, and bounce_rate_raw itself is unchanged.                         *)
(***************************************************************************)
ExpectedPercent(b) == cast_float(strip_end(b, "%"))

C10_BounceRatePercent ==
    Stage1Called =>
        /\ ~Stage1Failed
        /\ \A i \in DOMAIN table :
             /\ table[i][BOUNCE_PERCENT]
                    = ExpectedPercent(SourceData(i).bounceRate.s)
             /\ table[i][BOUNCE] = SourceData(i).bounceRate

(***************************************************************************)
(* C11.  Scoped store connection: every stage that touches the store       *)
(* (load, transform, view creation) holds exactly one connection of its    *)
(* own while it runs its queries and has released it when it ends, on      *)
(* success and on query failure alike; at most one connection is ever      *)
(* open, and none between stages or after a call has returned or raised.   *)
(***************************************************************************)
InStore == {"load_execute", "transform_execute", "create_views"}

C11_ScopedConnection ==
    /\ conns \in {0, 1}
    /\ pc \in InStore => conns = 1
    /\ pc \notin InStore => conns = 0

\* The load query has failed on an open connection and pipeline() has
\* raised.
C11_Witness ==
    /\ exc = Exc("duckdb.Error", "load_to_duckdb")
    /\ pc = "raised"
    /\ conns = 0

(***************************************************************************)
(* C12.  View-creation fault isolation: create_views goes through the      *)
(* three views once each, in the order monthly_visit_changes,              *)
(* monthly_rank_changes, relative_ranking; a missing SQL file (a warning)  *)
(* or a failing query (an error) is logged for that view, the remaining    *)
(* views are still attempted, and create_views does not raise because of   *)
(* either.                                                                 *)
(***************************************************************************)
ExpectedLevel(outcome) ==
    CASE outcome = "missing" -> "WARNING"
      [] outcome = "failed" -> "ERROR"
      [] OTHER -> "INFO"

ViewLog == SelectSeq(log, LAMBDA e : "view" \in DOMAIN e)
LoggedViews == SelectSeq(views, LAMBDA v : v.outcome # "unreadable")

C12_ViewFaultIsolation ==
    /\ Len(views) <= Len(ViewNames)
    /\ \A k \in DOMAIN views : views[k].name = ViewNames[k]
    /\ pc = "views_done" => Len(views) = Len(ViewNames)
    /\ ViewLog = [k \in DOMAIN LoggedViews |->
                    ViewEntry(ExpectedLevel(LoggedViews[k].outcome),
                              LoggedViews[k].name)]
    /\ exc.at = "create_views" =>
         \A k \in DOMAIN views : views[k].outcome \in {"missing", "failed"} =>
            k < Len(views)
    /\ \A k \in DOMAIN views :
         (views[k].outcome \in {"missing", "failed"} /\ k = Len(views)) =>
            pc \in {"create_views", "views_done"}

\* create_views has returned after a missing file for the first view and a
\* failing query for the second, with the third view created.
C12_Witness ==
    /\ pc = "views_done"
    /\ views[1].outcome = "missing"
    /\ views[2].outcome = "failed"
    /\ views[3].outcome = "created"

(***************************************************************************)
(* C13.  Sink stage ordering and fatality: the intermediate artifact is    *)
(* written before the store load, the load completes before the transform  *)
(* starts; a failure of the load or the transform (missing SQL file,       *)
(* unreachable store, failing query) leaves pipeline() as an exception, no *)
(* later stage runs after it, and what was written or loaded before it     *)
(* stays.                                                                  *)
(***************************************************************************)
C13_SinkOrderAndFatality ==
    /\ loaded => csv_written
    /\ transformed => loaded
    /\ pc \in {"load_to_duckdb", "load_execute"} =>
         csv_written /\ ~loaded /\ ~transformed
    /\ pc \in {"transform_in_duckdb", "transform_execute"} =>
         loaded /\ ~transformed
    /\ pc = "done" => transformed
    /\ exc.at = "load_to_duckdb" =>
         /\ pc = "raised"
         /\ csv_written /\ ~loaded /\ ~transformed
         /\ views = <<>>
    /\ exc.at = "transform_in_duckdb" =>
         /\ pc = "raised"
         /\ csv_written /\ loaded /\ ~transformed
         /\ views = <<>>

\* The transform query has failed after a completed load.
C13_Witness ==
    /\ exc = Exc("duckdb.Error", "transform_in_duckdb")
    /\ pc = "raised"
    /\ csv_written /\ loaded

====
